---- MODULE Spec2Model ----
(***************************************************************************)
(* Cycling Quality Index pipeline (scr/py/recyclingbin/index.py and        *)
(* index2.py): dead-end removal, length filter, point sampling, sidepath   *)
(* detection, offset lines, scoring and the output writes, as a state      *)
(* machine over a table of segments; with it the statistic choice of       *)
(* scr/test/beta_slope_factor.py and the ban-list subtraction of           *)
(* scr/py/s1_dataclean.py.                                                 *)
(*                                                                         *)
(* Specifications.  Spec is main() of index.py, Spec2 main() of index2.py, *)
(* SpecScorer compute_quality_index on annotated tables, SpecBarrier the   *)
(* attribute step on one-record tables, SpecSlope the choice of rep_field, *)
(* SpecDataclean build_ban_sets and subtract_by_id.                        *)
(*                                                                         *)
(* Numbers.  Coordinates, lengths and distances are integers (units of the *)
(* CRS that to_crs returned, metres by default); every polyline of the     *)
(* model has axis-parallel steps, so its length is an integer.  The score  *)
(* is kept as an exact fraction: speed_norm as a numerator over SPEED_MAX  *)
(* and cqi as a numerator over CqiDen.  An optional value (None / NaN in   *)
(* the code) is <<>> and a present value v is <<v>>.  A text is a sequence *)
(* of one-character strings.                                               *)
(***************************************************************************)
EXTENDS Integers, Sequences, FiniteSets, TLC

VARIABLES
    args,       \* the parsed command line (index2.py adds offset_distance)
    raw,        \* the table as loaded, before cleaning (history of `ways`)
    ways,       \* the segment table `ways` of main(), a sequence of rows
    pts,        \* the sample points `pts`, a sequence of rows
    side_dict,  \* the mapping edge index -> presence returned by compute_sidepath_presence
    offsets,    \* the table `offsets` of main() of index2.py
    written,    \* the outputs that to_file has written so far
    call,       \* the last call of a stage function: its argument at the call
                \* and the same object when the call returned
    slope,      \* apply_slope_factor: stat_choice, the fields of roads_stats, rep_field
    dataclean,  \* s1_dataclean: the original records, the banned ids, the kept records
    pc,         \* the position of main()
    err         \* the exception that ended the run, "" when none

vars == <<args, raw, ways, pts, side_dict, offsets, written, call, slope,
          dataclean, pc, err>>

\* the state of the two helper scripts, which main() never touches
aside == <<slope, dataclean>>

----------------------------------------------------------------------------
(* Bounds *)

\* the largest number of records of an input collection
MaxSegs == 3

\* how far below 0 and above 60 the speeds handed to the scorer alone range
MaxOver == 3

----------------------------------------------------------------------------
(* Small helpers *)

None == <<>>
Some(v) == <<v>>
IsNone(o) == o = <<>>
Val(o) == o[1]

Abs(a) == IF a < 0 THEN -a ELSE a
Min2(a, b) == IF a < b THEN a ELSE b
Max2(a, b) == IF a < b THEN b ELSE a

\* clamp v into [lo, hi]
Clamp(v, lo, hi) == Max2(lo, Min2(v, hi))

\* math.floor(a / b) for integers a and b # 0 (true floor, also for b < 0)
CeilDivPos(a, b) == IF a >= 0 THEN (a + b - 1) \div b ELSE -((-a) \div b)
FloorDiv(a, b) ==
    IF b > 0
    THEN (IF a >= 0 THEN a \div b ELSE -CeilDivPos(-a, b))
    ELSE (IF a >= 0 THEN -CeilDivPos(a, -b) ELSE (-a) \div (-b))

RECURSIVE SumSeq(_)
SumSeq(s) == IF s = <<>> THEN 0 ELSE s[1] + SumSeq(Tail(s))

Range(s) == {s[i] : i \in 1..Len(s)}

\* the number of positions of s that hold v
Count(s, v) == Cardinality({i \in 1..Len(s) : s[i] = v})

----------------------------------------------------------------------------
(* Geometry: shapely LineString / Point on integer coordinates *)

IsLineString(geom) == geom.kind = "LineString"

StepLen(p, q) == Abs(p[1] - q[1]) + Abs(p[2] - q[2])

\* geom.length: the sum of the step lengths of a line, 0 for a point
GeomLength(geom) ==
    IF IsLineString(geom)
    THEN SumSeq([i \in 1..(Len(geom.coords) - 1) |->
                    StepLen(geom.coords[i], geom.coords[i + 1])])
    ELSE 0

Sign(a) == IF a > 0 THEN 1 ELSE IF a < 0 THEN -1 ELSE 0

\* the point at distance s from p on the axis-parallel step p -> q
Along(p, q, s) == <<p[1] + s * Sign(q[1] - p[1]), p[2] + s * Sign(q[2] - p[2])>>

RECURSIVE Walk(_, _, _)
Walk(coords, i, s) ==
    IF i >= Len(coords) THEN coords[Len(coords)]
    ELSE LET l == StepLen(coords[i], coords[i + 1])
         IN  IF s <= l THEN Along(coords[i], coords[i + 1], s)
             ELSE Walk(coords, i + 1, s - l)

\* geom.interpolate(s): the point at arc length s, clamped to the line's ends
Interpolate(geom, s) == Walk(geom.coords, 1, Clamp(s, 0, GeomLength(geom)))

\* squared distance from the point c to the axis-parallel step p -> q
StepDistSq(c, p, q) ==
    LET nx == Clamp(c[1], Min2(p[1], q[1]), Max2(p[1], q[1]))
        ny == Clamp(c[2], Min2(p[2], q[2]), Max2(p[2], q[2]))
    IN  (c[1] - nx) * (c[1] - nx) + (c[2] - ny) * (c[2] - ny)

\* the disk of radius r around c meets geom (buffer(r) intersects geom)
DiskIntersects(c, r, geom) ==
    /\ r > 0
    /\ IF Len(geom.coords) = 1
       THEN StepDistSq(c, geom.coords[1], geom.coords[1]) <= r * r
       ELSE \E i \in 1..(Len(geom.coords) - 1) :
               StepDistSq(c, geom.coords[i], geom.coords[i + 1]) <= r * r

----------------------------------------------------------------------------
(* remove_deadends *)

\* the (x, y) pairs the first loop appends for one geometry
EndpointsOf(geom) ==
    IF IsLineString(geom)
    THEN <<geom.coords[1], geom.coords[Len(geom.coords)]>>
    ELSE <<>>

\* `endpoints`: start and end of every LineString, in row order
RECURSIVE Endpoints(_)
Endpoints(gdf) ==
    IF gdf = <<>> THEN <<>>
    ELSE EndpointsOf(gdf[1].geometry) \o Endpoints(Tail(gdf))

\* `dead_coords`: the pairs that value_counts() counts exactly once
DeadCoords(gdf) ==
    LET endpoints == Endpoints(gdf)
    IN  {c \in Range(endpoints) : Count(endpoints, c) = 1}

\* a variant that looks at the start of the line only
is_dead_start_only(geom, dead_coords) ==
    IF ~IsLineString(geom) THEN FALSE
    ELSE geom.coords[1] \in dead_coords

is_dead(geom, dead_coords) ==
    IF ~IsLineString(geom) THEN FALSE
    ELSE \/ geom.coords[1] \in dead_coords
         \/ geom.coords[Len(geom.coords)] \in dead_coords

\* a variant that repeats the pass until nothing changes
RECURSIVE remove_deadends_iterated(_)
remove_deadends_iterated(gdf) ==
    LET dead_coords == DeadCoords(gdf)
        out == SelectSeq(gdf, LAMBDA row : ~is_dead(row.geometry, dead_coords))
    IN  IF out = gdf THEN gdf ELSE remove_deadends_iterated(out)

remove_deadends(gdf) ==
    LET dead_coords == DeadCoords(gdf)
    IN  SelectSeq(gdf, LAMBDA row : ~is_dead(row.geometry, dead_coords))

----------------------------------------------------------------------------
(* generate_points_along *)

\* a variant that loops over range(n) and so leaves out the last point
PointsOfNoLast(row, dist) ==
    IF ~IsLineString(row.geometry) THEN <<>>
    ELSE LET n == FloorDiv(GeomLength(row.geometry), dist)
         IN  [i \in 1..n |->
                [edge_id  |-> row.idx,
                 pos      |-> (i - 1) * dist,
                 geometry |-> Interpolate(row.geometry, (i - 1) * dist)]]

\* the rows appended for one segment: range(n + 1) with n = floor(length / dist);
\* `pos` records the arc length i * dist handed to interpolate
PointsOf(row, dist) ==
    IF ~IsLineString(row.geometry) THEN <<>>
    ELSE LET n == FloorDiv(GeomLength(row.geometry), dist)
         IN  [i \in 1..(n + 1) |->
                [edge_id  |-> row.idx,
                 pos      |-> (i - 1) * dist,
                 geometry |-> Interpolate(row.geometry, (i - 1) * dist)]]

\* geom.length / dist raises ZeroDivisionError at the first LineString row
SamplerRaises(gdf, dist) ==
    dist = 0 /\ \E i \in 1..Len(gdf) : IsLineString(gdf[i].geometry)

RECURSIVE generate_points_along(_, _)
generate_points_along(gdf, dist) ==
    IF gdf = <<>> THEN <<>>
    ELSE PointsOf(gdf[1], dist) \o generate_points_along(Tail(gdf), dist)

----------------------------------------------------------------------------
(* compute_sidepath_presence *)

\* a variant of the join that leaves out the segment the point was sampled from
JoinMatchesOthers(p, gdf, buf_dist) ==
    {j \in 1..Len(gdf) :
        /\ gdf[j].idx # p.edge_id
        /\ DiskIntersects(p.geometry, buf_dist, gdf[j].geometry)}

\* gpd.sjoin(buf_gdf, ways, how="left", predicate="intersects"): the rows of
\* `ways` that the buffer of the point p meets (every row of ways is a candidate)
JoinMatches(p, gdf, buf_dist) ==
    {j \in 1..Len(gdf) : DiskIntersects(p.geometry, buf_dist, gdf[j].geometry)}

\* groupby("edge_id")["index_right"].apply(lambda x: x.notna().any()).to_dict()
compute_sidepath_presence(gdf, pts_gdf, buf_dist) ==
    [k \in {pts_gdf[i].edge_id : i \in 1..Len(pts_gdf)} |->
        \E i \in 1..Len(pts_gdf) :
            /\ pts_gdf[i].edge_id = k
            /\ JoinMatches(pts_gdf[i], gdf, buf_dist) # {}]

\* a variant that fills the missing keys with True
MapFillnaTrue(idx, d) == IF idx \in DOMAIN d THEN d[idx] ELSE TRUE

\* ways.index.map(side_dict).fillna(False)
MapFillna(idx, d) == IF idx \in DOMAIN d THEN d[idx] ELSE FALSE

----------------------------------------------------------------------------
(* extract_numeric and has_barrier *)

Digits == <<"0", "1", "2", "3", "4", "5", "6", "7", "8", "9">>
IsDigit(c) == c \in Range(Digits)
DigitVal(c) == (CHOOSE i \in 1..10 : Digits[i] = c) - 1

UpperCase == <<"A", "B", "C", "D", "E", "F", "G", "H", "I", "J", "K", "L", "M",
               "N", "O", "P", "Q", "R", "S", "T", "U", "V", "W", "X", "Y", "Z">>
LowerCase == <<"a", "b", "c", "d", "e", "f", "g", "h", "i", "j", "k", "l", "m",
               "n", "o", "p", "q", "r", "s", "t", "u", "v", "w", "x", "y", "z">>

\* str.lower()
LowerChar(c) ==
    IF c \in Range(UpperCase)
    THEN LowerCase[CHOOSE i \in 1..26 : UpperCase[i] = c]
    ELSE c
Lower(t) == [i \in 1..Len(t) |-> LowerChar(t[i])]

\* float() of a run of digits
RECURSIVE DigitsValue(_, _)
DigitsValue(t, acc) ==
    IF t = <<>> THEN acc ELSE DigitsValue(Tail(t), 10 * acc + DigitVal(t[1]))

\* re.search(r"\d+", t): the first maximal run of digits, <<>> when there is none
FirstDigitRun(t) ==
    IF \A i \in 1..Len(t) : ~IsDigit(t[i]) THEN <<>>
    ELSE LET a == CHOOSE i \in 1..Len(t) :
                    IsDigit(t[i]) /\ \A j \in 1..(i - 1) : ~IsDigit(t[j])
             b == CHOOSE i \in a..Len(t) :
                    /\ \A j \in a..i : IsDigit(t[j])
                    /\ (i = Len(t) \/ ~IsDigit(t[i + 1]))
         IN  SubSeq(t, a, b)

extract_numeric(val) ==
    IF IsNone(val) THEN None
    ELSE LET m == FirstDigitRun(Val(val))
         IN  IF m = <<>> THEN None ELSE Some(DigitsValue(m, 0))

TxtTrack == <<"t", "r", "a", "c", "k">>
TxtSeparate == <<"s", "e", "p", "a", "r", "a", "t", "e">>
TxtYes == <<"y", "e", "s">>
BarrierValues == {TxtTrack, TxtSeparate, TxtYes}

\* a variant that compares the tag without lower()
TagIsBarrierCaseSensitive(v) ==
    /\ ~IsNone(v)
    /\ Val(v) # <<>>
    /\ Val(v) \in BarrierValues

\* `if v and str(v).lower() in ['track', 'separate', 'yes']`
TagIsBarrier(v) ==
    /\ ~IsNone(v)
    /\ Val(v) # <<>>
    /\ Lower(Val(v)) \in BarrierValues

has_barrier(r) ==
    \/ TagIsBarrier(r.cycleway)
    \/ TagIsBarrier(r.cycleway_left)
    \/ TagIsBarrier(r.cycleway_right)
    \/ TagIsBarrier(r.cycleway_both)
    \/ TagIsBarrier(r.cycleway_segregated)

----------------------------------------------------------------------------
(* compute_quality_index *)

\* the weights w_speed, w_barrier, w_side = 0.4, 0.3, 0.3, in tenths
W_SPEED == 4
W_BARRIER == 3
W_SIDE == 3
WeightDen == 10

\* the bounds of clip(0, 60) and the divisor of speed_norm
SPEED_MIN == 0
SPEED_MAX == 60

\* cqi is a numerator over CqiDen
CqiDen == WeightDen * SPEED_MAX

\* astype(int) of a boolean column
AsInt(b) == IF b THEN 1 ELSE 0

\* a variant that divides by 60 without clipping first
SpeedNormNoClip(proc_maxspeed) ==
    IF IsNone(proc_maxspeed) THEN None ELSE Some(Val(proc_maxspeed))

\* a variant that clips to whole tens before dividing
SpeedNormTens(proc_maxspeed) ==
    IF IsNone(proc_maxspeed) THEN None
    ELSE Some(10 * (Clamp(Val(proc_maxspeed), SPEED_MIN, SPEED_MAX) \div 10))

\* proc_maxspeed.clip(0, 60), the numerator of speed_norm over SPEED_MAX;
\* NaN stays NaN
SpeedNorm(proc_maxspeed) ==
    IF IsNone(proc_maxspeed) THEN None
    ELSE Some(Clamp(Val(proc_maxspeed), SPEED_MIN, SPEED_MAX))

\* a variant with the speed and sidepath weights exchanged
CqiOfWeightsSwapped(barrier_score, side_score, speed_norm) ==
    IF IsNone(speed_norm) THEN None
    ELSE Some(W_BARRIER * barrier_score * SPEED_MAX
              + W_SPEED * side_score * SPEED_MAX
              + W_SIDE * (SPEED_MAX - Val(speed_norm)))

\* w_barrier * barrier_score + w_side * side_score + w_speed * (1 - speed_norm)
CqiOf(barrier_score, side_score, speed_norm) ==
    IF IsNone(speed_norm) THEN None
    ELSE Some(W_BARRIER * barrier_score * SPEED_MAX
              + W_SIDE * side_score * SPEED_MAX
              + W_SPEED * (SPEED_MAX - Val(speed_norm)))

ScoreRow(row) ==
    LET speed_norm    == SpeedNorm(row.proc_maxspeed)
        barrier_score == AsInt(row.has_physical_barrier)
        side_score    == AsInt(row.sidepath_presence)
    IN  [speed_norm    |-> speed_norm,
         barrier_score |-> barrier_score,
         side_score    |-> side_score,
         cqi           |-> CqiOf(barrier_score, side_score, speed_norm)] @@ row

compute_quality_index(df) == [i \in 1..Len(df) |-> ScoreRow(df[i])]

----------------------------------------------------------------------------
(* Inputs: the features a collection is drawn from, and the command lines *)

Txt20 == <<"2", "0">>
Txt30mph == <<"3", "0", " ", "m", "p", "h">>
Txt60 == <<"6", "0">>
Txt70 == <<"7", "0">>
TxtSignals == <<"s", "i", "g", "n", "a", "l", "s">>
TxtLane == <<"l", "a", "n", "e">>
TxtTrackCaps == <<"T", "r", "a", "c", "k">>

LineString(cs) == [kind |-> "LineString", coords |-> cs]
Point(c) == [kind |-> "Point", coords |-> <<c>>]

Feature(geom, maxspeed, cycleway, cycleway_right) ==
    [geometry            |-> geom,
     maxspeed            |-> maxspeed,
     cycleway            |-> cycleway,
     cycleway_left       |-> None,
     cycleway_right      |-> cycleway_right,
     cycleway_both       |-> None,
     cycleway_segregated |-> None]

Features == <<
    \* 1: a 50 m street from a free end (0,0) to the junction (50,0)
    Feature(LineString(<< <<0, 0>>, <<50, 0>> >>), Some(Txt30mph), Some(TxtTrack), None),
    \* 2: a 30 m street between the junctions (50,0) and (80,0)
    Feature(LineString(<< <<50, 0>>, <<80, 0>> >>), Some(Txt20), Some(TxtLane), None),
    \* 3: a 5 m stub from (80,0) to (85,0)
    Feature(LineString(<< <<80, 0>>, <<85, 0>> >>), None, None, None),
    \* 4: a 70 m path parallel to feature 2, 20 m north of it, same end points
    Feature(LineString(<< <<50, 0>>, <<50, 20>>, <<80, 20>>, <<80, 0>> >>),
            Some(Txt70), None, Some(TxtTrackCaps)),
    \* 5: a closed 30 m ring far from everything else
    Feature(LineString(<< <<200, 0>>, <<210, 0>>, <<210, 5>>, <<200, 5>>, <<200, 0>> >>),
            Some(TxtSignals), None, None),
    \* 6: a zero-length line at (80,0)
    Feature(LineString(<< <<80, 0>>, <<80, 0>> >>), Some(Txt60), None, None),
    \* 7: a point feature at (50,0)
    Feature(Point(<<50, 0>>), None, None, None),
    \* 8: a 25 m loop road from (80,0) to (85,0), same end points as feature 3
    Feature(LineString(<< <<80, 0>>, <<80, 10>>, <<85, 10>>, <<85, 0>> >>),
            Some(Txt30mph), None, None)
>>

\* read_file / concat(ignore_index=True): rows 0 .. n-1 of the chosen features
Table(choice) ==
    [i \in 1..Len(choice) |-> [idx |-> i - 1] @@ Features[choice[i]]]

\* the feature numbers of the records of an input, in file order
Choices == UNION {[1..n -> 1..Len(Features)] : n \in 0..MaxSegs}

Inputs == {Table(c) : c \in Choices}

MinLengths == {0, 10}
PointSpacings == {-20, 0, 7, 20}
BufferDistances == {5, 25}
OffsetDistances == {2}

\* --crs_metric: the default, a projected CRS in metres, and a geographic CRS
\* in degrees; the coordinates of Features are those that to_crs returns, in
\* the units of the CRS
CrsProjected == "EPSG:3857"
CrsGeographic == "EPSG:4326"

\* the defaults of parse_args
DefaultArgs ==
    [input |-> "file", min_length |-> 10, point_spacing |-> 20,
     buffer_distance |-> 5, crs_metric |-> CrsProjected]

\* the command lines of index.py; --input names one file or a folder of files
Configs ==
    {a \in [input : {"file"}, min_length : MinLengths,
            point_spacing : PointSpacings, buffer_distance : BufferDistances,
            crs_metric : {CrsProjected}] :
        a.buffer_distance = DefaultArgs.buffer_distance
        \/ a.point_spacing = DefaultArgs.point_spacing}
    \cup {[DefaultArgs EXCEPT !.crs_metric = CrsGeographic]}
    \cup {[DefaultArgs EXCEPT !.input = "folder"]}

\* the command lines of index2.py, which has --offset_distance as well
Configs2 ==
    [input : {"file"}, min_length : MinLengths, point_spacing : {0, 20},
     buffer_distance : {5}, crs_metric : {CrsProjected, CrsGeographic},
     offset_distance : OffsetDistances]

----------------------------------------------------------------------------
(* generate_offset_lines (index2.py) *)

\* the unit normal of the step a -> b on the given side
Normal(a, b, side) ==
    LET sx == Sign(b[1] - a[1])
        sy == Sign(b[2] - a[2])
    IN  IF side = "left" THEN <<-sy, sx>> ELSE <<sy, -sx>>

\* vertex i of the offset of the polyline cs with mitred joins (join_style=2):
\* an end vertex moves along the normal of its step, a corner to the
\* intersection of the two offset steps
OffsetVertex(cs, i, dist, side) ==
    LET nin  == IF i > 1 THEN Normal(cs[i - 1], cs[i], side) ELSE <<0, 0>>
        nout == IF i < Len(cs) THEN Normal(cs[i], cs[i + 1], side) ELSE <<0, 0>>
        n    == IF nin = nout THEN nin ELSE <<nin[1] + nout[1], nin[2] + nout[2]>>
    IN  <<cs[i][1] + dist * n[1], cs[i][2] + dist * n[2]>>

\* what line.parallel_offset does with a line of length 0, which has no
\* direction: it raises, or it returns an empty LineString, by the version of
\* the library
ZeroLengthOutcomes == {"raises", "empty"}

\* line.parallel_offset(offset_dist, side, join_style=2) of a line of
\* positive length
parallel_offset(line, dist, side) ==
    [kind   |-> "LineString",
     coords |-> [i \in 1..Len(line.coords) |->
                    OffsetVertex(line.coords, i, dist, side)]]

EmptyLineString == [kind |-> "LineString", coords |-> <<>>]

\* parallel_offset raises for this row
OffsetFails(row, zero_len) ==
    /\ IsLineString(row.geometry)
    /\ GeomLength(row.geometry) = 0
    /\ zero_len = "raises"

\* the keys of the rows that the except clause skipped
OffsetFailures(gdf, zero_len) ==
    {gdf[i].idx : i \in {j \in 1..Len(gdf) : OffsetFails(gdf[j], zero_len)}}

\* a variant without the try / except around parallel_offset
OffsetRaisesUncaught(gdf, zero_len) == OffsetFailures(gdf, zero_len) # {}

\* does the call raise?  No: `except Exception: continue` takes every failure
\* of parallel_offset
OffsetRaises(gdf, zero_len) == FALSE

\* the records appended for one row: none for a row that is not a LineString,
\* none when parallel_offset raised, else one per side whose result is a
\* LineString or a MultiLineString
OffsetsOf(row, dist, zero_len) ==
    IF ~IsLineString(row.geometry) THEN <<>>
    ELSE IF OffsetFails(row, zero_len) THEN <<>>
    ELSE LET result(side) ==
                 IF GeomLength(row.geometry) = 0 THEN EmptyLineString
                 ELSE parallel_offset(row.geometry, dist, side)
             sides == <<"left", "right">>
         IN  SelectSeq([k \in 1..2 |->
                           [edge_id |-> row.idx, side |-> sides[k],
                            geometry |-> result(sides[k])]],
                       LAMBDA r : r.geometry.kind \in {"LineString", "MultiLineString"})

RECURSIVE generate_offset_lines(_, _, _)
generate_offset_lines(gdf, offset_dist, zero_len) ==
    IF gdf = <<>> THEN <<>>
    ELSE OffsetsOf(gdf[1], offset_dist, zero_len)
         \o generate_offset_lines(Tail(gdf), offset_dist, zero_len)

----------------------------------------------------------------------------
(* main() *)

\* a variant that filters by length before the dead-end pass
StagesLengthFirst ==
    <<"load", "length", "deadends", "sample", "sidepath", "attributes",
      "score", "write", "done">>

\* the order of the stages of main()
Stages ==
    <<"load", "deadends", "length", "sample", "sidepath", "attributes",
      "score", "write", "done">>

\* the order of the stages of main() of index2.py
Stages2 ==
    <<"load", "deadends", "length", "sample", "sidepath", "offsets",
      "attributes", "score", "write", "write_offsets", "done">>

\* the stages of the program whose command line `args` is
StagesOf == IF "offset_distance" \in DOMAIN args THEN Stages2 ELSE Stages

Pos(p) == CHOOSE i \in 1..Len(StagesOf) : StagesOf[i] = p

StageAfter(p) == StagesOf[Pos(p) + 1]

\* the run has completed the stage s
Past(s) == pc \in Range(StagesOf) /\ Pos(pc) > Pos(s)

\* a variant of the merge that keeps the row labels of every file
concat_keep_index(gdfs) == gdfs[1] \o gdfs[2]

\* pd.concat(gdfs, ignore_index=True): the rows of the files in order,
\* labelled 0 .. n-1
concat(gdfs) ==
    LET rows == gdfs[1] \o gdfs[2]
    IN  [i \in 1..Len(rows) |-> [rows[i] EXCEPT !.idx = i - 1]]

\* no stage function has been called yet
NoCall == [fn |-> "", arg |-> <<>>, arg_after |-> <<>>]

\* a stage function that builds its result from copies leaves its argument
\* as it was
Untouched(arg) == arg

\* compute_quality_index assigns the columns on df itself and returns df
df_after_compute_quality_index(df) == compute_quality_index(df)

Init ==
    /\ args \in Configs
    /\ raw = <<>>
    /\ ways = <<>>
    /\ pts = <<>>
    /\ side_dict = <<>>
    /\ offsets = <<>>
    /\ written = {}
    /\ call = NoCall
    /\ slope = <<>>
    /\ dataclean = <<>>
    /\ pc = "load"
    /\ err = ""

\* read the input (one file, or the two files of a folder, of k and of
\* Len(c) - k records, merged), reproject, keep the known columns
Load ==
    /\ pc = "load"
    /\ \E c \in Choices :
       \E k \in (IF args.input = "folder" THEN 0..Len(c) ELSE {0}) :
          LET t == IF args.input = "folder"
                   THEN concat(<<Table(SubSeq(c, 1, k)),
                                 Table(SubSeq(c, k + 1, Len(c)))>>)
                   ELSE Table(c)
          IN  ways' = t /\ raw' = t
    /\ pc' = StageAfter(pc)
    /\ UNCHANGED <<args, pts, side_dict, offsets, written, call, aside, err>>

\* ways = remove_deadends(ways)
CleanDeadends ==
    /\ pc = "deadends"
    /\ ways' = remove_deadends(ways)
    /\ call' = [fn |-> "remove_deadends", arg |-> ways,
                arg_after |-> Untouched(ways)]
    /\ pc' = StageAfter(pc)
    /\ UNCHANGED <<args, raw, pts, side_dict, offsets, written, aside, err>>

\* ways['length_m'] = ways.geometry.length;
\* ways = ways[ways['length_m'] >= args.min_length]
length_filter(gdf, min_length) ==
    SelectSeq([i \in 1..Len(gdf) |->
                  [length_m |-> GeomLength(gdf[i].geometry)] @@ gdf[i]],
              LAMBDA row : row.length_m >= min_length)

CleanLength ==
    /\ pc = "length"
    /\ ways' = length_filter(ways, args.min_length)
    /\ pc' = StageAfter(pc)
    /\ UNCHANGED <<args, raw, pts, side_dict, offsets, written, call, aside, err>>

\* pts = generate_points_along(ways, args.point_spacing)
Sample ==
    /\ pc = "sample"
    /\ IF SamplerRaises(ways, args.point_spacing)
       THEN /\ err' = "ZeroDivisionError"
            /\ pc' = "failed"
            /\ UNCHANGED pts
       ELSE /\ pts' = generate_points_along(ways, args.point_spacing)
            /\ pc' = StageAfter(pc)
            /\ UNCHANGED err
    /\ call' = [fn |-> "generate_points_along", arg |-> ways,
                arg_after |-> Untouched(ways)]
    /\ UNCHANGED <<args, raw, ways, side_dict, offsets, written, aside>>

\* side_dict = compute_sidepath_presence(ways, pts, args.buffer_distance);
\* ways['sidepath_presence'] = ways.index.map(side_dict).fillna(False)
Sidepath ==
    /\ pc = "sidepath"
    /\ side_dict' = compute_sidepath_presence(ways, pts, args.buffer_distance)
    /\ ways' = [i \in 1..Len(ways) |->
                  [sidepath_presence |-> MapFillna(ways[i].idx, side_dict')]
                  @@ ways[i]]
    /\ call' = [fn |-> "compute_sidepath_presence", arg |-> <<ways, pts>>,
                arg_after |-> Untouched(<<ways, pts>>)]
    /\ pc' = StageAfter(pc)
    /\ UNCHANGED <<args, raw, pts, offsets, written, aside, err>>

\* offsets = generate_offset_lines(ways, args.offset_distance)
Offsets ==
    /\ pc = "offsets"
    /\ \E zero_len \in ZeroLengthOutcomes :
          /\ IF OffsetRaises(ways, zero_len)
             THEN /\ err' = "TopologicalError"
                  /\ pc' = "failed"
                  /\ UNCHANGED offsets
             ELSE /\ offsets' = generate_offset_lines(ways, args.offset_distance, zero_len)
                  /\ pc' = StageAfter(pc)
                  /\ UNCHANGED err
          /\ call' = [fn |-> "generate_offset_lines", arg |-> ways,
                      arg_after |-> Untouched(ways),
                      raised |-> OffsetFailures(ways, zero_len)]
    /\ UNCHANGED <<args, raw, ways, pts, side_dict, written, aside>>

\* the columns proc_maxspeed and has_physical_barrier
Attributes ==
    /\ pc = "attributes"
    /\ ways' = [i \in 1..Len(ways) |->
                  [proc_maxspeed        |-> extract_numeric(ways[i].maxspeed),
                   has_physical_barrier |-> has_barrier(ways[i])] @@ ways[i]]
    /\ pc' = StageAfter(pc)
    /\ UNCHANGED <<args, raw, pts, side_dict, offsets, written, call, aside, err>>

\* ways = compute_quality_index(ways)
Score ==
    /\ pc = "score"
    /\ ways' = compute_quality_index(ways)
    /\ call' = [fn |-> "compute_quality_index", arg |-> ways,
                arg_after |-> df_after_compute_quality_index(ways)]
    /\ pc' = StageAfter(pc)
    /\ UNCHANGED <<args, raw, pts, side_dict, offsets, written, aside, err>>

\* to_file either writes the whole output or raises (an I/O error, or a table
\* the driver refuses), leaving the output unwritten
to_file(name, ok) ==
    IF ok
    THEN /\ written' = written \cup {name}
         /\ pc' = StageAfter(pc)
         /\ UNCHANGED err
    ELSE /\ err' = "IOError"
         /\ pc' = "failed"
         /\ UNCHANGED written

\* ways.to_file(args.output, layer='cqi', driver=driver)
Write ==
    /\ pc = "write"
    /\ \E ok \in BOOLEAN : to_file("cqi", ok)
    /\ UNCHANGED <<args, raw, ways, pts, side_dict, offsets, call, aside>>

\* offsets.to_file(..., layer='offset_lines') or offsets.to_file(out_off, ...)
WriteOffsets ==
    /\ pc = "write_offsets"
    /\ \E ok \in BOOLEAN : to_file("offset_lines", ok)
    /\ UNCHANGED <<args, raw, ways, pts, side_dict, offsets, call, aside>>

Next ==
    \/ Load
    \/ CleanDeadends
    \/ CleanLength
    \/ Sample
    \/ Sidepath
    \/ Attributes
    \/ Score
    \/ Write

Spec == Init /\ [][Next]_vars

\* main() of index2.py: the same stages, with the offset lines after the
\* sidepath detection and their output written after the main output
Init2 ==
    /\ args \in Configs2
    /\ raw = <<>>
    /\ ways = <<>>
    /\ pts = <<>>
    /\ side_dict = <<>>
    /\ offsets = <<>>
    /\ written = {}
    /\ call = NoCall
    /\ slope = <<>>
    /\ dataclean = <<>>
    /\ pc = "load"
    /\ err = ""

Next2 ==
    \/ Load
    \/ CleanDeadends
    \/ CleanLength
    \/ Sample
    \/ Sidepath
    \/ Offsets
    \/ Attributes
    \/ Score
    \/ Write
    \/ WriteOffsets

Spec2 == Init2 /\ [][Next2]_vars

----------------------------------------------------------------------------
(* Properties of the cleaning stage *)

IdxOf(df) == {df[i].idx : i \in 1..Len(df)}

Start(geom) == geom.coords[1]
End(geom) == geom.coords[Len(geom.coords)]

\* how many (row, end) places of the LineStrings of df hold the coordinate c
Occurrences(df, c) ==
    Cardinality({i \in 1..Len(df) :
                    IsLineString(df[i].geometry) /\ Start(df[i].geometry) = c})
    + Cardinality({i \in 1..Len(df) :
                    IsLineString(df[i].geometry) /\ End(df[i].geometry) = c})

\* how many LineStrings of df have c as their start or their end
SegmentsAt(df, c) ==
    Cardinality({i \in 1..Len(df) :
                    /\ IsLineString(df[i].geometry)
                    /\ (Start(df[i].geometry) = c \/ End(df[i].geometry) = c)})

\* row i of df is a closed line that no other line of df touches at its end point
ClosedAlone(df, i) ==
    /\ IsLineString(df[i].geometry)
    /\ Start(df[i].geometry) = End(df[i].geometry)
    /\ SegmentsAt(df, Start(df[i].geometry)) = 1

TouchesOnce(df, i) ==
    /\ IsLineString(df[i].geometry)
    /\ \/ Occurrences(df, Start(df[i].geometry)) = 1
       \/ Occurrences(df, End(df[i].geometry)) = 1

\* C1 as stated: after remove_deadends, every segment one of whose end
\* coordinates is the end point of exactly one segment of the input is absent
\* from the output, closed segments included.
C1_EverySingleSegmentEndRemoved ==
    pc = "length" =>
        \A i \in 1..Len(raw) :
            (/\ IsLineString(raw[i].geometry)
             /\ \/ SegmentsAt(raw, Start(raw[i].geometry)) = 1
                \/ SegmentsAt(raw, End(raw[i].geometry)) = 1)
            => raw[i].idx \notin IdxOf(ways)

\* C1 amended: a coordinate that occurs exactly once among the start and end
\* coordinates of the input's lines (a closed line contributes its coordinate
\* twice) is a dead end, and every line whose start or end is a dead end is
\* absent from the output of remove_deadends; a closed line that no other line
\* touches has no dead end and is kept.
C1_DeadEndsRemoved ==
    pc = "length" =>
        \A i \in 1..Len(raw) :
            /\ TouchesOnce(raw, i) => raw[i].idx \notin IdxOf(ways)
            /\ ClosedAlone(raw, i) => raw[i].idx \in IdxOf(ways)

\* C1 witness: the pass has removed a line with a dead end and kept a closed
\* line that nothing else touches
C1_Witness ==
    /\ pc = "length"
    /\ \E i \in 1..Len(raw) : TouchesOnce(raw, i) /\ raw[i].idx \notin IdxOf(ways)
    /\ \E i \in 1..Len(raw) : ClosedAlone(raw, i) /\ raw[i].idx \in IdxOf(ways)

AfterCleaning == pc \in {"sample", "sidepath", "attributes", "score", "write", "done"}

\* C2 as stated: every segment of the cleaned collection has length_m > 0 and
\* length_m >= min_length, for every min_length >= 0.
C2_CleanedLengthsPositive ==
    AfterCleaning =>
        \A i \in 1..Len(ways) :
            ways[i].length_m > 0 /\ ways[i].length_m >= args.min_length

\* C8: the cleaned table is the length filter applied to the single dead-end
\* pass over the whole input: exactly the rows of the input, in input order,
\* that have no end coordinate occurring once in the whole input and whose
\* length is at least min_length.  For the input A (5 m), B (50 m, one dead
\* end), C (30 m, no dead end) with min_length 10 the run ends with C alone,
\* length_m = 30 and a cqi.
ExampleABC == Table(<<3, 1, 2>>)

C8_CleaningOrder ==
    /\ pc = "sample" =>
          /\ [i \in 1..Len(ways) |-> ways[i].idx]
               = [i \in 1..Len(SelectSeq(raw, LAMBDA r :
                        /\ ~TouchesOnce(raw, r.idx + 1)
                        /\ GeomLength(r.geometry) >= args.min_length)) |->
                    SelectSeq(raw, LAMBDA r :
                        /\ ~TouchesOnce(raw, r.idx + 1)
                        /\ GeomLength(r.geometry) >= args.min_length)[i].idx]
          /\ \A i \in 1..Len(ways) :
                /\ ways[i].geometry = raw[ways[i].idx + 1].geometry
                /\ ways[i].length_m = GeomLength(ways[i].geometry)
    /\ (pc = "done" /\ raw = ExampleABC /\ args.min_length = 10) =>
          /\ Len(ways) = 1
          /\ ways[1].idx = 2
          /\ ways[1].length_m = 30
          /\ ~IsNone(ways[1].cqi)

\* C8 witness: a cleaned table on which the order matters: filtering by length
\* first would have turned a kept row's end into a dead end
C8_Witness ==
    /\ pc = "sample"
    /\ ways # <<>>
    /\ IdxOf(remove_deadends(length_filter(raw, args.min_length))) # IdxOf(ways)

\* C9: one invocation of remove_deadends is one pass: every row neither of
\* whose end coordinates occurs once in the input is kept (rows that are not
\* lines are kept too), even when that leaves it with a dead end in the output.
C9_SinglePass ==
    pc = "length" =>
        \A i \in 1..Len(raw) :
            ~TouchesOnce(raw, i) => raw[i].idx \in IdxOf(ways)

\* C9 witness: the output of the pass still has a dead end, and a second pass
\* would remove more rows
C9_Witness ==
    /\ pc = "length"
    /\ \E i \in 1..Len(ways) : TouchesOnce(ways, i)
    /\ Len(remove_deadends(ways)) < Len(ways)

----------------------------------------------------------------------------
(* Properties of the sampler and of the sidepath detector *)

\* the sample points of the segment with key k, in the order of pts
PointsFor(k) == SelectSeq(pts, LAMBDA p : p.edge_id = k)

Sampled == pc \in {"sidepath", "attributes", "score", "write", "done"}

\* C3: with spacing d > 0 every line of length L gets m >= 1 points where
\* (m - 1) * d <= L < m * d, i.e. m = floor(L / d) + 1; they lie at the arc
\* lengths 0, d, 2d, ... in that order, each is the point of the line at that
\* arc length, the last one is at most L, and a line shorter than d gets the
\* single point at 0.
C3_SamplePositions ==
    (Sampled /\ args.point_spacing > 0) =>
        \A i \in 1..Len(ways) :
            IsLineString(ways[i].geometry) =>
                LET L == GeomLength(ways[i].geometry)
                    d == args.point_spacing
                    ps == PointsFor(ways[i].idx)
                    m == Len(ps)
                IN  /\ m >= 1
                    /\ (m - 1) * d <= L
                    /\ L < m * d
                    /\ ps[1].pos = 0
                    /\ \A j \in 2..m : ps[j].pos = ps[j - 1].pos + d
                    /\ ps[m].pos <= L
                    /\ \A j \in 1..m :
                          ps[j].geometry = Walk(ways[i].geometry.coords, 1, ps[j].pos)
                    /\ (L < d => m = 1)

\* C3 witness: one run sampled a line shorter than the spacing and a line
\* whose length is a multiple of the spacing, with more than one point
C3_Witness ==
    /\ Sampled
    /\ args.point_spacing > 0
    /\ \E i \in 1..Len(ways) :
          /\ IsLineString(ways[i].geometry)
          /\ GeomLength(ways[i].geometry) < args.point_spacing
          /\ Len(PointsFor(ways[i].idx)) = 1
    /\ \E i \in 1..Len(ways) :
          /\ IsLineString(ways[i].geometry)
          /\ GeomLength(ways[i].geometry) % args.point_spacing = 0
          /\ Len(PointsFor(ways[i].idx)) > 2

Flagged == pc \in {"attributes", "score", "write", "done"}

\* row i of ways is farther than r from every other row of ways
FarFromOthers(i, r) ==
    \A j \in 1..Len(ways) :
        j # i =>
            \A a \in 1..Len(ways[i].geometry.coords) :
                \A b \in 1..Len(ways[j].geometry.coords) :
                    StepLen(ways[i].geometry.coords[a], ways[j].geometry.coords[b])
                        > 2 * r + 100

\* C4: with the points joined against the table they were sampled from, every
\* segment that has a sample point gets sidepath_presence = TRUE, whatever the
\* buffer radius r > 0 and whether or not another segment is near.
C4_SelfSidepath ==
    (Flagged /\ args.buffer_distance > 0) =>
        \A i \in 1..Len(ways) :
            PointsFor(ways[i].idx) # <<>> => ways[i].sidepath_presence = TRUE

\* C4 witness: a segment with sample points and no other segment anywhere near
\* is flagged, next to another segment
C4_Witness ==
    /\ Flagged
    /\ Len(ways) > 1
    /\ \E i \in 1..Len(ways) :
          /\ PointsFor(ways[i].idx) # <<>>
          /\ FarFromOthers(i, args.buffer_distance)
          /\ ways[i].sidepath_presence = TRUE

\* C10 as stated: with a spacing d <= 0 the run never gets a point collection
\* from the sampler: it never goes past the sampling stage.
C10_NonPositiveSpacingFails ==
    args.point_spacing <= 0 => ~Sampled

----------------------------------------------------------------------------
(* The scorer on its own: compute_quality_index on annotated tables *)

ScorerSpeeds == (SPEED_MIN - MaxOver)..(SPEED_MAX + MaxOver)

ScorerRows ==
    [has_physical_barrier : BOOLEAN, sidepath_presence : BOOLEAN,
     proc_maxspeed : {Some(v) : v \in ScorerSpeeds}]

\* annotated tables of one row and of two rows
ScorerTables ==
    {<<[idx |-> 0] @@ a>> : a \in ScorerRows}
    \cup {<<[idx |-> 0] @@ a, [idx |-> 1] @@ b>> : a, b \in ScorerRows}

InitScorer ==
    /\ args = DefaultArgs
    /\ ways \in ScorerTables
    /\ raw = ways
    /\ pts = <<>>
    /\ side_dict = <<>>
    /\ offsets = <<>>
    /\ written = {}
    /\ call = NoCall
    /\ slope = <<>>
    /\ dataclean = <<>>
    /\ pc = "score"
    /\ err = ""

SpecScorer == InitScorer /\ [][Score]_vars

Scored == pc \in {"write", "done"}

\* C5: for boolean flags and any speed, negative and above 60 included, the
\* scorer ends without an error and every cqi is a number in [0, 1].
C5_CqiRange ==
    Scored =>
        /\ err = ""
        /\ Len(ways) = Len(raw)
        /\ \A i \in 1..Len(ways) :
              /\ ~IsNone(ways[i].cqi)
              /\ 0 <= Val(ways[i].cqi)
              /\ Val(ways[i].cqi) <= CqiDen

\* C5 witness: scored tables with a negative speed and a speed above 60, one
\* at cqi = 1 and one at cqi = 0
C5_Witness ==
    /\ Scored
    /\ Len(ways) = 2
    /\ Val(ways[1].proc_maxspeed) < SPEED_MIN
    /\ Val(ways[1].cqi) = CqiDen
    /\ Val(ways[2].proc_maxspeed) > SPEED_MAX
    /\ Val(ways[2].cqi) = 0

\* the row of raw that row i of ways was computed from
Before(i) == raw[i]

\* C6: in exact arithmetic cqi = 0.3 * barrier + 0.3 * sidepath
\* + 0.4 * (1 - clamp(speed, 0, 60) / 60), flags counted as 0 or 1, the weights
\* summing to 1.0; (true, true, 60) gives 0.60 and (false, false, 0) gives
\* 0.40; a speed above 60 scores as 60 and a speed below 0 as 0.
C6_CqiFormula ==
    Scored =>
        /\ W_BARRIER + W_SIDE + W_SPEED = WeightDen
        /\ \A i \in 1..Len(ways) :
              LET b == IF ways[i].has_physical_barrier THEN 1 ELSE 0
                  p == IF ways[i].sidepath_presence THEN 1 ELSE 0
                  v == Val(ways[i].proc_maxspeed)
                  c == IF v < 0 THEN 0 ELSE IF v > 60 THEN 60 ELSE v
                  \* 6000 * cqi, from the claim's decimal weights
                  claimed == 1800 * b + 1800 * p + 40 * (60 - c)
              IN  /\ 6000 * Val(ways[i].cqi) = claimed * CqiDen
                  /\ (b = 1 /\ p = 1 /\ v = 60) => 100 * Val(ways[i].cqi) = 60 * CqiDen
                  /\ (b = 0 /\ p = 0 /\ v = 0) => 100 * Val(ways[i].cqi) = 40 * CqiDen
        /\ \A i, j \in 1..Len(ways) :
              (/\ ways[i].has_physical_barrier = ways[j].has_physical_barrier
               /\ ways[i].sidepath_presence = ways[j].sidepath_presence
               /\ \/ Val(ways[i].proc_maxspeed) > 60 /\ Val(ways[j].proc_maxspeed) = 60
                  \/ Val(ways[i].proc_maxspeed) < 0 /\ Val(ways[j].proc_maxspeed) = 0)
              => ways[i].cqi = ways[j].cqi

\* C6 witness: the two worked examples scored in one table
C6_Witness ==
    /\ Scored
    /\ Len(ways) = 2
    /\ ways[1].has_physical_barrier /\ ways[1].sidepath_presence
    /\ Val(ways[1].proc_maxspeed) = 60
    /\ 100 * Val(ways[1].cqi) = 60 * CqiDen
    /\ ~ways[2].has_physical_barrier /\ ~ways[2].sidepath_presence
    /\ Val(ways[2].proc_maxspeed) = 0
    /\ 100 * Val(ways[2].cqi) = 40 * CqiDen

\* C7: of two segments with equal flags and speeds s1 < s2, both in [0, 60],
\* the slower one has the strictly larger cqi.
C7_StrictlyDecreasing ==
    Scored =>
        \A i, j \in 1..Len(ways) :
            (/\ ways[i].has_physical_barrier = ways[j].has_physical_barrier
             /\ ways[i].sidepath_presence = ways[j].sidepath_presence
             /\ 0 <= Val(ways[i].proc_maxspeed)
             /\ Val(ways[i].proc_maxspeed) < Val(ways[j].proc_maxspeed)
             /\ Val(ways[j].proc_maxspeed) <= 60)
            => Val(ways[i].cqi) > Val(ways[j].cqi)

\* C7 witness: two scored segments with equal flags whose speeds differ by one
C7_Witness ==
    /\ Scored
    /\ Len(ways) = 2
    /\ ways[1].has_physical_barrier = ways[2].has_physical_barrier
    /\ ways[1].sidepath_presence = ways[2].sidepath_presence
    /\ Val(ways[1].proc_maxspeed) = 59
    /\ Val(ways[2].proc_maxspeed) = 60
    /\ Val(ways[1].cqi) > Val(ways[2].cqi)

----------------------------------------------------------------------------
(* Properties of the whole run: missing values, defaults, failures *)

\* C11 as stated: a segment whose proc_maxspeed is missing (maxspeed absent or
\* without digits) is scored as if its speed were 0: its cqi is the number
\* 0.3 * barrier + 0.3 * sidepath + 0.4, which lies in [0, 1].
C11_MissingSpeedScoredAsZero ==
    Past("score") =>
        \A i \in 1..Len(ways) :
            IsNone(ways[i].proc_maxspeed) =>
                LET b == IF ways[i].has_physical_barrier THEN 1 ELSE 0
                    p == IF ways[i].sidepath_presence THEN 1 ELSE 0
                IN  /\ ~IsNone(ways[i].cqi)
                    /\ 10 * Val(ways[i].cqi) = (3 * b + 3 * p + 4) * CqiDen
                    /\ 0 <= Val(ways[i].cqi)
                    /\ Val(ways[i].cqi) <= CqiDen

\* C12: once the sidepath flags are written, every segment of the cleaned set
\* whose key is not in the mapping, a record that is not a LineString
\* included, has sidepath_presence = FALSE, not a null, and the run has not
\* failed.
C12_SidepathDefault ==
    Past("sidepath") =>
        /\ err = ""
        /\ \A i \in 1..Len(ways) :
              ways[i].idx \notin DOMAIN side_dict =>
                  /\ PointsFor(ways[i].idx) = <<>>
                  /\ ways[i].sidepath_presence \in BOOLEAN
                  /\ ways[i].sidepath_presence = FALSE

\* C12 witness: a point record that the sampler skipped sits in the cleaned
\* set next to a sampled line, and its flag is FALSE
C12_Witness ==
    /\ Past("sidepath")
    /\ \E i, j \in 1..Len(ways) :
          /\ ~IsLineString(ways[i].geometry)
          /\ ways[i].idx \notin DOMAIN side_dict
          /\ ways[i].sidepath_presence = FALSE
          /\ ways[j].idx \in DOMAIN side_dict
          /\ ways[j].sidepath_presence = TRUE

\* the records of offsets for the key k and the side sd
OffsetsFor(k, sd) == SelectSeq(offsets, LAMBDA r : r.edge_id = k /\ r.side = sd)

\* every vertex of the offset line lies offset_distance away from the vertex
\* of the segment it comes from, across the direction of travel
AtOffsetDistance(row, r) ==
    /\ Len(r.geometry.coords) = Len(row.geometry.coords)
    /\ \A v \in 1..Len(r.geometry.coords) :
          LET dx == Abs(r.geometry.coords[v][1] - row.geometry.coords[v][1])
              dy == Abs(r.geometry.coords[v][2] - row.geometry.coords[v][2])
          IN  /\ {dx, dy} \subseteq {0, args.offset_distance}
              /\ dx + dy > 0

C14_GeographicCrsFailsFast ==
    args.crs_metric = CrsGeographic => ~Past("length")

\* C15 as stated: a run that failed at any step, the write of the offset
\* output after the main output included, has written no output; a run that
\* ended has written every output.
C15_AllOrNothing ==
    /\ pc = "failed" => written = {}
    /\ pc = "done" => written = {"cqi", "offset_lines"}

\* C16 as stated: when a stage function returns, the collection it was given
\* is as it was at the call, in its records, fields and field values.
C16_NoInPlaceMutation ==
    call.arg_after = call.arg

----------------------------------------------------------------------------
(* apply_slope_factor (scr/test/beta_slope_factor.py): the choice of the
   statistic field that is mapped to fac_5 *)

\* main() has not run: the state of the pipeline in the helper scripts
NoRun ==
    /\ args = DefaultArgs
    /\ raw = <<>>
    /\ ways = <<>>
    /\ pts = <<>>
    /\ side_dict = <<>>
    /\ offsets = <<>>
    /\ written = {}
    /\ call = NoCall
    /\ err = ""

\* preferred = {"q3": "slp_1_q3", "max": "slp_1_max", "mean": "slp_1_mean"}
preferred == [q3 |-> "slp_1_q3", max |-> "slp_1_max", mean |-> "slp_1_mean"]

\* the values of stat_choice: the three statistics and a name that is none
StatChoices == {"q3", "max", "mean", "median"}

\* the fields roads_stats may have after the join
StatFields == {"slp_1_q3", "slp_1_max", "slp_1_mean", "slp_1_min", "proc_slope"}

\* a variant that falls back to max, then mean, and to q3 last
TryOrderMaxFirst(stat_choice) == <<stat_choice, "max", "mean", "q3">>

\* for key in [stat_choice, "q3", "max", "mean"]
TryOrder(stat_choice) == <<stat_choice, "q3", "max", "mean">>

\* the loop: the field of the first key whose field roads_stats has,
\* None when the loop ends without one
choose_rep_field(stat_choice, fields) ==
    LET hits == SelectSeq(TryOrder(stat_choice),
                          LAMBDA key : /\ key \in DOMAIN preferred
                                       /\ preferred[key] \in fields)
    IN  IF hits = <<>> THEN None ELSE Some(preferred[hits[1]])

InitSlope ==
    /\ NoRun
    /\ slope \in [stat_choice : StatChoices, fields : SUBSET StatFields,
                   rep_field : {None}]
    /\ dataclean = <<>>
    /\ pc = "rep_field"

\* rep_field = ...; if rep_field is None: raise RuntimeError(...)
ChooseRepField ==
    /\ pc = "rep_field"
    /\ LET rep == choose_rep_field(slope.stat_choice, slope.fields)
       IN  /\ slope' = [slope EXCEPT !.rep_field = rep]
           /\ IF IsNone(rep)
              THEN pc' = "failed" /\ err' = "RuntimeError"
              ELSE pc' = "fac_5" /\ UNCHANGED err
    /\ UNCHANGED <<args, raw, ways, pts, side_dict, offsets, written, call,
                   dataclean>>

SpecSlope == InitSlope /\ [][ChooseRepField]_vars

\* the statistic fields that roads_stats has
Available(key) == preferred[key] \in slope.fields

\* C17 as stated: the requested statistic is used when it is available,
\* otherwise max, then mean (q3 last, being the default choice), for every
\* stat_choice in {q3, max, mean} and every set of fields; with none of the
\* three the call fails.
C17_FallbackMaxThenMean ==
    (pc \in {"fac_5", "failed"} /\ slope.stat_choice \in DOMAIN preferred) =>
        LET want == slope.stat_choice
        IN  IF Available(want) THEN slope.rep_field = Some(preferred[want])
            ELSE IF Available("max") THEN slope.rep_field = Some(preferred.max)
            ELSE IF Available("mean") THEN slope.rep_field = Some(preferred.mean)
            ELSE IF Available("q3") THEN slope.rep_field = Some(preferred.q3)
            ELSE pc = "failed" /\ err = "RuntimeError"

\* C17: the requested statistic is used when its field is available,
\* otherwise the first available of q3, max, mean in this order (so max, then
\* mean, for the default q3); the call fails with RuntimeError exactly when
\* none of the three fields is available.
C17_FallbackQ3MaxMean ==
    pc \in {"fac_5", "failed"} =>
        LET want == slope.stat_choice
            none == ~Available("q3") /\ ~Available("max") /\ ~Available("mean")
        IN  /\ (pc = "failed") = none
            /\ none => (err = "RuntimeError" /\ IsNone(slope.rep_field))
            /\ ~none =>
                  /\ err = ""
                  /\ slope.rep_field =
                        IF want \in DOMAIN preferred /\ Available(want)
                        THEN Some(preferred[want])
                        ELSE IF Available("q3") THEN Some("slp_1_q3")
                        ELSE IF Available("max") THEN Some("slp_1_max")
                        ELSE Some("slp_1_mean")

\* C17 witness: max was requested and is missing while q3 and mean are
\* there, and q3 was taken
C17_Witness ==
    /\ pc = "fac_5"
    /\ slope.stat_choice = "max"
    /\ ~Available("max") /\ Available("q3") /\ Available("mean")
    /\ slope.rep_field = Some("slp_1_q3")

----------------------------------------------------------------------------
(* Keys of segments and of sample points *)

\* the rows of the table t with the key k
RowsWithKey(t, k) == {i \in 1..Len(t) : t[i].idx = k}

\* C18: once the flags are written, also for an input merged from several
\* files, no two segments of ways share a key, every sample point carries the
\* key of exactly one segment of ways and is the point of that segment at its
\* arc length, the flag of a segment is the value the mapping holds for its
\* key, and the segments are those handed to the sampler: sampling left the
\* table as it was, and every segment is a loaded record under its key.
C18_KeyIntegrity ==
    /\ Past("length") =>
          /\ \A i, j \in 1..Len(ways) : ways[i].idx = ways[j].idx => i = j
          /\ \A i \in 1..Len(ways) :
                /\ Cardinality(RowsWithKey(raw, ways[i].idx)) = 1
                /\ \A j \in RowsWithKey(raw, ways[i].idx) :
                      ways[i].geometry = raw[j].geometry
    /\ Past("sample") =>
          \A n \in 1..Len(pts) :
              /\ Cardinality(RowsWithKey(ways, pts[n].edge_id)) = 1
              /\ \A i \in RowsWithKey(ways, pts[n].edge_id) :
                    /\ IsLineString(ways[i].geometry)
                    /\ pts[n].geometry = Walk(ways[i].geometry.coords, 1, pts[n].pos)
    /\ pc = "sidepath" =>
          /\ call.fn = "generate_points_along"
          /\ ways = call.arg
          /\ call.arg_after = call.arg
    /\ Past("sidepath") =>
          \A i \in 1..Len(ways) :
              ways[i].sidepath_presence =
                  (/\ ways[i].idx \in DOMAIN side_dict
                   /\ side_dict[ways[i].idx])

\* C18 witness: an input merged from the files of a folder, of which a
\* record was cleaned away, has two flagged segments whose sample points
\* carry their two keys
C18_Witness ==
    /\ Past("sidepath")
    /\ args.input = "folder"
    /\ Len(ways) < Len(raw)
    /\ \E i, j \in 1..Len(ways) :
          /\ ways[i].idx # ways[j].idx
          /\ Len(PointsFor(ways[i].idx)) > 1
          /\ Len(PointsFor(ways[j].idx)) > 1
          /\ ways[i].sidepath_presence
          /\ ways[j].sidepath_presence

----------------------------------------------------------------------------
(* has_barrier on its own: the attribute step on one-record tables *)

TxtYesCaps == <<"Y", "E", "S">>
TxtSeparateCap == <<"S", "e", "p", "a", "r", "a", "t", "e">>

\* the values of a cycleway tag: absent, empty, and spellings of accepted
\* and of other values
TagValues ==
    {None, Some(<<>>), Some(TxtTrack), Some(TxtYesCaps), Some(TxtSeparateCap),
     Some(TxtLane)}

\* one-record tables as the attribute step gets them
BarrierTables ==
    {<<r>> : r \in
        [idx : {0},
         geometry : {LineString(<< <<0, 0>>, <<50, 0>> >>)},
         length_m : {50},
         sidepath_presence : {TRUE},
         maxspeed : {None, Some(Txt20)},
         cycleway : TagValues, cycleway_left : TagValues,
         cycleway_right : TagValues, cycleway_both : TagValues,
         cycleway_segregated : TagValues]}

InitBarrier ==
    /\ args = DefaultArgs
    /\ ways \in BarrierTables
    /\ raw = ways
    /\ pts = <<>>
    /\ side_dict = <<>>
    /\ offsets = <<>>
    /\ written = {}
    /\ call = NoCall
    /\ slope = <<>>
    /\ dataclean = <<>>
    /\ pc = "attributes"
    /\ err = ""

SpecBarrier == InitBarrier /\ [][Attributes]_vars

\* the five tags of a record
BarrierTags(r) ==
    {r.cycleway, r.cycleway_left, r.cycleway_right, r.cycleway_both,
     r.cycleway_segregated}

\* the tag values of TagValues that are, up to case, track, separate or yes
AcceptedTagValues == {Some(TxtTrack), Some(TxtYesCaps), Some(TxtSeparateCap)}

\* C19: has_physical_barrier is TRUE exactly when one of the five tags
\* cycleway, cycleway_left, cycleway_right, cycleway_both, cycleway_segregated
\* is a non-empty text equal, whatever its case, to track, separate or yes; it
\* is FALSE when all five are absent or empty, and it is the same for records
\* that differ in other attributes only.
C19_BarrierFlag ==
    pc = "score" =>
        \A i \in 1..Len(ways) :
            /\ ways[i].has_physical_barrier =
                  (BarrierTags(ways[i]) \cap AcceptedTagValues # {})
            /\ BarrierTags(ways[i]) \subseteq {None, Some(<<>>)}
                  => ways[i].has_physical_barrier = FALSE

\* C19 witness: only cycleway_segregated is set, to "YES", next to a record
\* state with a speed, and the flag is TRUE
C19_Witness ==
    /\ pc = "score"
    /\ ways[1].cycleway = None
    /\ ways[1].cycleway_left = Some(<<>>)
    /\ ways[1].cycleway_right = Some(TxtLane)
    /\ ways[1].cycleway_both = None
    /\ ways[1].cycleway_segregated = Some(TxtYesCaps)
    /\ ways[1].maxspeed = Some(Txt20)
    /\ ways[1].has_physical_barrier = TRUE

----------------------------------------------------------------------------
(* s1_dataclean.py: subtraction of a ban list from a collection, by id *)

\* the most records in the original collection and in the ban list
MaxRecs == 2

TxtNone == <<"N", "o", "n", "e">>

\* the ids of the records: way/12, "12 " with a trailing blank, n7, 7x12,
\* 07, and a record without an id
IdValues ==
    {Some(<<"w", "a", "y", "/", "1", "2">>), Some(<<"1", "2", " ">>),
     Some(<<"n", "7">>), Some(<<"7", "x", "1", "2">>), Some(<<"0", "7">>),
     None}

\* astype(str): the text of an id, "None" for a missing one
astype_str(v) == IF IsNone(v) THEN TxtNone ELSE Val(v)

\* str.strip(): without the blanks at both ends
RECURSIVE strip(_)
strip(t) ==
    IF t = <<>> THEN t
    ELSE IF Head(t) = " " THEN strip(Tail(t))
    ELSE IF t[Len(t)] = " " THEN strip(SubSeq(t, 1, Len(t) - 1))
    ELSE t

\* normalize_id_series: per id, id_str (the trimmed text) and id_num (its
\* first run of digits, "" when it has none)
normalize_id_series(s) ==
    [i \in 1..Len(s) |->
        LET id_str == strip(astype_str(s[i]))
        IN  [id_str |-> id_str, id_num |-> FirstDigitRun(id_str)]]

\* build_ban_sets: the set of id_str and the set of the non-empty id_num
build_ban_sets(ban_ids) ==
    LET ndf == normalize_id_series(ban_ids)
    IN  [ban_full |-> {ndf[i].id_str : i \in 1..Len(ndf)},
         ban_num  |-> {ndf[i].id_num : i \in 1..Len(ndf)} \ {<<>>}]

\* a variant that matches the whole id string only
mask_drop_exact(id, ban_full, ban_num) == id.id_str \in ban_full

\* mask_drop of one record
mask_drop(id, ban_full, ban_num) ==
    \/ id.id_str \in ban_full
    \/ (id.id_num \in ban_num /\ id.id_num # <<>>)

\* subtract_by_id: orig_gdf.loc[~mask_drop].copy()
subtract_by_id(orig_gdf, ban_full, ban_num) ==
    SelectSeq(orig_gdf,
              LAMBDA row : ~mask_drop(normalize_id_series(<<row.id>>)[1],
                                      ban_full, ban_num))

\* the sequences of at most n elements of S
SeqsUpTo(S, n) == UNION {[1..m -> S] : m \in 0..n}

\* an original collection: records with an id and their feature number
OrigTables ==
    {[i \in 1..Len(ids) |-> [id |-> ids[i], fid |-> i]] :
        ids \in SeqsUpTo(IdValues, MaxRecs)}

InitDataclean ==
    /\ NoRun
    /\ slope = <<>>
    /\ dataclean \in [orig : OrigTables, ban : SeqsUpTo(IdValues, MaxRecs),
                       kept : {<<>>}]
    /\ pc = "subtract"

\* ban_full, ban_num = build_ban_sets(ban, ban_id_col);
\* kept = subtract_by_id(orig, ban_full, ban_num, orig_id_col)
Subtract ==
    /\ pc = "subtract"
    /\ LET sets == build_ban_sets(dataclean.ban)
       IN  dataclean' = [dataclean EXCEPT
                           !.kept = subtract_by_id(dataclean.orig, sets.ban_full,
                                                   sets.ban_num)]
    /\ pc' = "to_file"
    /\ UNCHANGED <<args, raw, ways, pts, side_dict, offsets, written, call,
                   slope, err>>

SpecDataclean == InitDataclean /\ [][Subtract]_vars

\* the trimmed text of an id
Trimmed(v) == strip(astype_str(v))

\* the record with id v is banned by the list
Banned(v) ==
    \E b \in 1..Len(dataclean.ban) :
        \/ Trimmed(v) = Trimmed(dataclean.ban[b])
        \/ /\ FirstDigitRun(Trimmed(v)) # <<>>
           /\ FirstDigitRun(Trimmed(v)) = FirstDigitRun(Trimmed(dataclean.ban[b]))

\* the positions in orig of the records that are not banned
NotBanned == {i \in 1..Len(dataclean.orig) : ~Banned(dataclean.orig[i].id)}

IdWay12 == Some(<<"w", "a", "y", "/", "1", "2">>)
Id12Blank == Some(<<"1", "2", " ">>)
Id7x12 == Some(<<"7", "x", "1", "2">>)
IdN7 == Some(<<"n", "7">>)
Id07 == Some(<<"0", "7">>)

\* C20: a record is dropped exactly when its trimmed id equals a trimmed
\* banned id or its first digit run is non-empty and is the first digit run
\* of a banned id; the kept records are the others, unchanged and in their
\* original order, so kept plus dropped is the original count; an id without
\* digits is dropped on an exact match only.  Worked cases: "12 " bans
\* way/12, a missing id bans a missing id (both read "None"), while 7x12 is
\* not banned by 12 (its first run is 7), nor n7 by 07 (the runs are
\* compared as texts), nor a missing id by way/12; n7 bans 7x12 (both runs
\* are 7).
C20_BanSubtraction ==
    pc = "to_file" =>
        LET orig == dataclean.orig
            kept == dataclean.kept
            ban  == dataclean.ban
        IN  /\ \A i \in 1..Len(orig) :
                  (i \in NotBanned) = (\E n \in 1..Len(kept) : kept[n] = orig[i])
            /\ Len(kept) = Cardinality(NotBanned)
            /\ Len(kept) + (Len(orig) - Cardinality(NotBanned)) = Len(orig)
            /\ \A n \in 1..(Len(kept) - 1) : kept[n].fid < kept[n + 1].fid
            /\ \A i \in 1..Len(orig) :
                  (FirstDigitRun(Trimmed(orig[i].id)) = <<>> /\ i \notin NotBanned)
                  => \E b \in 1..Len(ban) : Trimmed(ban[b]) = Trimmed(orig[i].id)
            /\ \A i \in 1..Len(orig) :
                  LET id == orig[i].id
                      isKept == \E n \in 1..Len(kept) : kept[n].fid = i
                  IN  /\ (ban = <<Id12Blank>> /\ id = IdWay12) => ~isKept
                      /\ (ban = <<None>> /\ id = None) => ~isKept
                      /\ (ban = <<Id12Blank>> /\ id = Id7x12) => isKept
                      /\ (ban = <<Id07>> /\ id = IdN7) => isKept
                      /\ (ban = <<IdWay12>> /\ id = None) => isKept
                      /\ (ban = <<IdN7>> /\ id = Id7x12) => ~isKept

\* C20 witness: way/12 was dropped for the banned id "12 " and the record
\* after it, 07, was kept
C20_Witness ==
    /\ pc = "to_file"
    /\ dataclean.ban = <<Id12Blank>>
    /\ Len(dataclean.orig) = 2
    /\ dataclean.orig[1].id = IdWay12
    /\ dataclean.orig[2].id = Id07
    /\ dataclean.kept = <<dataclean.orig[2]>>

====
